---- MODULE Spec2Model ----
(***************************************************************************)
(* Model of the item matcher of VS-Alexa-Walmart                           *)
(* (src/src/search/matcher.py: MatchResult, ItemMatcher).                  *)
(*                                                                         *)
(* Strings are sequences of code points.  A candidate (a Python dict) is a *)
(* record that has exactly the keys the dict has, so "key in dict" is      *)
(* "key \in DOMAIN item".  An Optional value is a sequence of length at    *)
(* most one: <<>> is None, <<v>> is the value v.  A similarity score (a    *)
(* Python float) is an exact rational <<numerator, denominator>> in lowest *)
(* terms with a positive denominator.                                      *)
(***************************************************************************)
EXTENDS Integers, Sequences, FiniteSets, TLC

VARIABLES
    min_score,         \* self.min_score
    prefer_frequent,   \* self.prefer_frequent
    prefer_in_stock,   \* self.prefer_in_stock
    query,             \* the caller's query string
    items,             \* the caller's catalog candidate list
    my_items,          \* the caller's history pool: <<>> is None, <<l>> the list l
    call,              \* the method that returned last, with its limit argument
    result,            \* what it returned
    threads,           \* the calls in progress on the matcher, one frame per thread
    run,               \* the run_once call in progress: its locals, the file, the Amazon list
    clearer,           \* the clear_list call in progress: its locals and the list page
    search             \* the search_products call: the cards on the page, the list returned

vars == <<min_score, prefer_frequent, prefer_in_stock, query, items, my_items,
          call, result, threads, run, clearer, search>>

----------------------------------------------------------------------------
(* Optional values *)

None == <<>>

Some(v) == <<v>>

----------------------------------------------------------------------------
(* Exact rationals standing for the floats of the scorer *)

RECURSIVE Gcd(_, _)
Gcd(a, b) == IF b = 0 THEN a ELSE Gcd(b, a % b)

Abs(x) == IF x < 0 THEN -x ELSE x

\* n / d in lowest terms, d > 0
Rat(n, d) ==
    LET g == Gcd(Abs(n), d)
    IN  <<n \div g, d \div g>>

RatOfInt(k) == <<k, 1>>

\* r + k for an integer k
RatPlus(r, k) == <<r[1] + k * r[2], r[2]>>

RatGeq(r, s) == r[1] * s[2] >= s[1] * r[2]

RatGt(r, s) == r[1] * s[2] > s[1] * r[2]

----------------------------------------------------------------------------
(* str.lower, str.split, sorted, " ".join *)

\* str.lower() on the ASCII range
Lower(s) == [i \in 1..Len(s) |-> IF s[i] \in 65..90 THEN s[i] + 32 ELSE s[i]]

\* the characters str.split() treats as separators
IsSpace(c) == c \in {9, 10, 11, 12, 13, 32}

\* the positions where a maximal run of non-whitespace starts
TokenStarts(s) ==
    {i \in 1..Len(s) : ~IsSpace(s[i]) /\ (i = 1 \/ IsSpace(s[i - 1]))}

\* the position where the run that starts at i ends
TokenEnd(s, i) ==
    CHOOSE j \in i..Len(s) :
        /\ \A k \in i..j : ~IsSpace(s[k])
        /\ j = Len(s) \/ IsSpace(s[j + 1])

\* str.split(): the maximal runs of non-whitespace, in order
Split(s) ==
    LET starts == TokenStarts(s)
    IN  [k \in 1..Cardinality(starts) |->
            LET i == CHOOSE i \in starts : Cardinality({j \in starts : j < i}) = k - 1
            IN  SubSeq(s, i, TokenEnd(s, i))]

\* s < t in the order Python gives strings (code point by code point)
RECURSIVE StrLess(_, _)
StrLess(s, t) ==
    IF t = <<>> THEN FALSE
    ELSE IF s = <<>> THEN TRUE
    ELSE IF s[1] # t[1] THEN s[1] < t[1]
    ELSE StrLess(Tail(s), Tail(t))

\* insert token t into the sorted token list l, after the tokens equal to it
RECURSIVE InsertToken(_, _)
InsertToken(t, l) ==
    IF l = <<>> THEN <<t>>
    ELSE IF StrLess(t, l[1]) THEN <<t>> \o l
    ELSE <<l[1]>> \o InsertToken(t, Tail(l))

\* sorted(tokens)
RECURSIVE SortedTokens(_)
SortedTokens(l) ==
    IF l = <<>> THEN <<>>
    ELSE InsertToken(l[Len(l)], SortedTokens(SubSeq(l, 1, Len(l) - 1)))

\* " ".join(tokens)
RECURSIVE Join(_)
Join(l) ==
    IF l = <<>> THEN <<>>
    ELSE IF Len(l) = 1 THEN l[1]
    ELSE l[1] \o <<32>> \o Join(Tail(l))

----------------------------------------------------------------------------
(* rapidfuzz: fuzz.ratio, fuzz.token_sort_ratio, process.extractOne *)

Max(a, b) == IF a >= b THEN a ELSE b

\* One row of the longest-common-subsequence table: prev is the row of
\* s[1..i-1] against every prefix of t (prev[j+1] is the entry for t[1..j]),
\* the result is the row of s[1..i].
RECURSIVE LcsRow(_, _, _, _, _)
LcsRow(c, t, prev, j, row) ==
    IF j > Len(t) THEN row
    ELSE LcsRow(c, t, prev, j + 1,
                Append(row, IF c = t[j] THEN prev[j] + 1
                            ELSE Max(prev[j + 1], row[j])))

RECURSIVE LcsRows(_, _, _, _)
LcsRows(s, t, i, prev) ==
    IF i > Len(s) THEN prev
    ELSE LET row == LcsRow(s[i], t, prev, 1, <<0>>)
         IN  \* the row is complete before the next one is started
             CASE Len(row) = Len(t) + 1 -> LcsRows(s, t, i + 1, row)

\* length of a longest common subsequence of s and t
Lcs(s, t) == LcsRows(s, t, 1, [j \in 1..(Len(t) + 1) |-> 0])[Len(t) + 1]

\* a ratio taken over the shorter string only
Ratio_OfShorter(s, t) ==
    IF Len(s) + Len(t) = 0 THEN RatOfInt(100)
    ELSE IF Len(s) = 0 \/ Len(t) = 0 THEN RatOfInt(0)
    ELSE Rat(100 * Lcs(s, t), IF Len(s) < Len(t) THEN Len(s) ELSE Len(t))

\* fuzz.ratio: the normalized Indel similarity times 100,
\* 100 * (1 - (len(s) + len(t) - 2 * lcs) / (len(s) + len(t))); 100 for two
\* empty strings
Ratio(s, t) ==
    IF Len(s) + Len(t) = 0 THEN RatOfInt(100)
    ELSE Rat(200 * Lcs(s, t), Len(s) + Len(t))

\* fuzz.token_sort_ratio(s, t), computed
TokenSortRatioOf(s, t) == Ratio(Join(SortedTokens(Split(s))), Join(SortedTokens(Split(t))))

----------------------------------------------------------------------------
(* The strings of the callers' data *)

Str_a_b  == <<97, 32, 98>>          \* "a b"
Str_A_B  == <<65, 32, 66>>          \* "A B"
Str_b_A  == <<98, 32, 65>>          \* "b A"
Str_AB   == <<65, 66>>              \* "AB"
Str_a_bb == <<97, 32, 98, 98>>      \* "a bb"
Str_     == <<>>                    \* ""

\* the queries: "b A" scores 100 against "a b" and "A B" and 600/7 against
\* "a bb"; "AB" scores 80 against "a b" and "A B" and 200/3 against "a bb"
Queries == {Str_b_A, Str_AB}

\* product titles; a product whose title could not be read has the name ""
Names == {Str_, Str_a_b, Str_A_B, Str_a_bb}

HistoryNames == {Str_A_B, Str_a_bb}

\* the strings the matcher hands to the scorer: it lowers both arguments
ScoredStrings == {Lower(s) : s \in Queries \cup Names \cup HistoryNames}

\* TokenSortRatioOf on the strings of the model, evaluated once
TokenSortRatioTable == [s \in ScoredStrings, t \in ScoredStrings |-> TokenSortRatioOf(s, t)]

\* fuzz.token_sort_ratio(s, t)
TokenSortRatio(s, t) ==
    IF s \in ScoredStrings /\ t \in ScoredStrings
    THEN TokenSortRatioTable[s, t]
    ELSE TokenSortRatioOf(s, t)

----------------------------------------------------------------------------
(* process.extractOne *)

\* The scorer under a score_cutoff, as process.extractOne calls it: a score
\* below the cutoff comes back as 0
ScoreWithCutoff(s, t, cutoff) ==
    LET r == TokenSortRatio(s, t)
    IN  IF RatGeq(r, cutoff) THEN r ELSE RatOfInt(0)

\* process.extractOne(q, choices, scorer=fuzz.token_sort_ratio,
\* score_cutoff=cutoff): the choices are scored in order and a choice replaces
\* the current best only with a score that reaches the cutoff and is strictly
\* higher; None when no choice reaches the cutoff.  Returns <<choice, score, index>>.
RECURSIVE ExtractFrom(_, _, _, _, _)
ExtractFrom(q, choices, i, cutoff, best) ==
    IF i > Len(choices) THEN best
    ELSE LET score == ScoreWithCutoff(q, choices[i], cutoff)
         IN  IF RatGeq(score, cutoff) /\ (best = None \/ RatGt(score, best[1][2]))
             THEN ExtractFrom(q, choices, i + 1, score, Some(<<choices[i], score, i>>))
             ELSE ExtractFrom(q, choices, i + 1, cutoff, best)

ExtractOne(q, choices, cutoff) == ExtractFrom(q, choices, 1, RatOfInt(cutoff), None)

----------------------------------------------------------------------------
(* Python dicts and lists *)

\* item.get(key, default)
Get(item, key, default) == IF key \in DOMAIN item THEN item[key] ELSE default

\* item.get(key) as an Optional
GetOpt(item, key) == IF key \in DOMAIN item THEN Some(item[key]) ELSE None

\* truth value of item.get(key) for a boolean field (None is falsy)
Truthy(item, key) == key \in DOMAIN item /\ item[key]

\* truth value of item.get("name")
HasName(item) == "name" \in DOMAIN item /\ item.name # <<>>

\* the keys, in insertion order, of {item["name"]: item for item in l if item.get("name")}
RECURSIVE DictKeys(_, _, _)
DictKeys(l, i, keys) ==
    IF i > Len(l) THEN keys
    ELSE IF HasName(l[i]) /\ \A k \in DOMAIN keys : keys[k] # l[i].name
         THEN DictKeys(l, i + 1, Append(keys, l[i].name))
         ELSE DictKeys(l, i + 1, keys)

\* {item["name"]: item for item in l if item.get("name")}: a later item with
\* the same name replaces the earlier one
NameMap(l) ==
    LET named == {i \in DOMAIN l : HasName(l[i])}
    IN  [n \in {l[i].name : i \in named} |->
            l[CHOOSE i \in named : /\ l[i].name = n
                                   /\ \A j \in named : l[j].name = n => j <= i]]

\* list.sort(key=lambda x: x[field], reverse=True) of a list of records:
\* descending, equal keys keep their order
RECURSIVE InsertDesc(_, _, _)

\* an insertion that puts a later element before the earlier ones equal to it
InsertDesc_Unstable(x, l, field) ==
    IF l = <<>> THEN <<x>>
    ELSE IF RatGeq(x[field], l[1][field]) THEN <<x>> \o l
    ELSE <<l[1]>> \o InsertDesc(x, Tail(l), field)

InsertDesc(x, l, field) ==
    IF l = <<>> THEN <<x>>
    ELSE IF RatGt(x[field], l[1][field]) THEN <<x>> \o l
    ELSE <<l[1]>> \o InsertDesc(x, Tail(l), field)

RECURSIVE SortDesc(_, _)
SortDesc(l, field) ==
    IF l = <<>> THEN <<>>
    ELSE InsertDesc(l[Len(l)], SortDesc(SubSeq(l, 1, Len(l) - 1), field), field)

\* a slice that keeps one element too many
Slice_OneMore(l, n) == SubSeq(l, 1, IF n + 1 < Len(l) THEN n + 1 ELSE Len(l))

\* l[:n]
Slice(l, n) ==
    IF n >= 0 THEN SubSeq(l, 1, IF n < Len(l) THEN n ELSE Len(l))
    ELSE SubSeq(l, 1, Len(l) + n)

----------------------------------------------------------------------------
(* MatchResult *)

NoMatch == [kind |-> "None"]

KeyError == [kind |-> "KeyError"]

\* MatchResult(item_id=item["id"], item_name=item["name"], ...): item["id"]
\* raises KeyError when the dict has no id
MatchResult(item, score, frequently_bought, my_items_page) ==
    IF "id" \notin DOMAIN item THEN KeyError
    ELSE [kind              |-> "MatchResult",
          item_id           |-> item.id,
          item_name         |-> item.name,
          price             |-> Get(item, "price", 0),
          score             |-> score,
          in_stock          |-> Get(item, "in_stock", FALSE),
          frequently_bought |-> frequently_bought,
          product_url       |-> Get(item, "product_url", ""),
          image_url         |-> GetOpt(item, "image"),
          my_items_page     |-> my_items_page]

----------------------------------------------------------------------------
(* ItemMatcher *)

\* _find_in_my_items taking frequently_bought from the catalog item
FindInMyItems_ItemFlag(ms, q, my_keys, search_items_map) ==
    LET match == ExtractOne(Lower(q), [k \in DOMAIN my_keys |-> Lower(my_keys[k])], ms)
    IN  IF match = None THEN NoMatch
        ELSE LET matched_name  == match[1][1]
                 score         == match[1][2]
                 first         == CHOOSE k \in DOMAIN my_keys :
                                     /\ Lower(my_keys[k]) = matched_name
                                     /\ \A j \in 1..(k - 1) : Lower(my_keys[j]) # matched_name
                 original_name == my_keys[first]
             IN  IF original_name \in DOMAIN search_items_map
                 THEN LET item == search_items_map[original_name]
                      IN  MatchResult(item, RatPlus(score, 10),
                                      Get(item, "frequently_bought", FALSE),
                                      GetOpt(item, "my_items_page"))
                 ELSE NoMatch

\* _find_in_my_items looking the matched name up in the catalog without
\* regard to letter case
FindInMyItems_IgnoresCase(ms, q, my_keys, search_items_map) ==
    LET match == ExtractOne(Lower(q), [k \in DOMAIN my_keys |-> Lower(my_keys[k])], ms)
    IN  IF match = None THEN NoMatch
        ELSE LET matched_name == match[1][1]
                 score        == match[1][2]
                 found        == {n \in DOMAIN search_items_map : Lower(n) = matched_name}
             IN  IF found # {}
                 THEN LET item == search_items_map[CHOOSE n \in found : TRUE]
                      IN  MatchResult(item, RatPlus(score, 10), TRUE,
                                      GetOpt(item, "my_items_page"))
                 ELSE NoMatch

\* a history path that leaves my_items_page unset
FindInMyItems_DropsPage(ms, q, my_keys, search_items_map) ==
    LET match == ExtractOne(Lower(q), [k \in DOMAIN my_keys |-> Lower(my_keys[k])], ms)
    IN  IF match = None THEN NoMatch
        ELSE LET matched_name  == match[1][1]
                 score         == match[1][2]
                 first         == CHOOSE k \in DOMAIN my_keys :
                                     /\ Lower(my_keys[k]) = matched_name
                                     /\ \A j \in 1..(k - 1) : Lower(my_keys[j]) # matched_name
                 original_name == my_keys[first]
             IN  IF original_name \in DOMAIN search_items_map
                 THEN MatchResult(search_items_map[original_name],
                                  RatPlus(score, 10), TRUE, None)
                 ELSE NoMatch

\* a history path that goes on to the next-best history name when the best
\* one is not in the catalog
FindInMyItems_NextBest(ms, q, my_keys, search_items_map) ==
    LET present == SelectSeq(my_keys, LAMBDA k : k \in DOMAIN search_items_map)
        match   == ExtractOne(Lower(q), [k \in DOMAIN present |-> Lower(present[k])], ms)
    IN  IF match = None THEN NoMatch
        ELSE LET matched_name  == match[1][1]
                 score         == match[1][2]
                 first         == CHOOSE k \in DOMAIN present :
                                     /\ Lower(present[k]) = matched_name
                                     /\ \A j \in 1..(k - 1) : Lower(present[j]) # matched_name
                 item          == search_items_map[present[first]]
             IN  MatchResult(item, RatPlus(score, 10), TRUE, GetOpt(item, "my_items_page"))

\* ItemMatcher._find_in_my_items
FindInMyItems(ms, q, my_keys, search_items_map) ==
    LET match == ExtractOne(Lower(q), [k \in DOMAIN my_keys |-> Lower(my_keys[k])], ms)
    IN  IF match = None THEN NoMatch
        ELSE LET matched_name  == match[1][1]
                 score         == match[1][2]
                 first         == CHOOSE k \in DOMAIN my_keys :
                                     /\ Lower(my_keys[k]) = matched_name
                                     /\ \A j \in 1..(k - 1) : Lower(my_keys[j]) # matched_name
                 original_name == my_keys[first]
             IN  IF original_name \in DOMAIN search_items_map
                 THEN LET item == search_items_map[original_name]
                      IN  MatchResult(item, RatPlus(score, 10), TRUE,
                                      GetOpt(item, "my_items_page"))
                 ELSE NoMatch

\* the boosted score without the out-of-stock penalty
BoostedScore_NoPenalty(pf, pis, item, score) ==
    LET frequent == IF pf /\ Truthy(item, "frequently_bought") THEN 5 ELSE 0
        stock    == IF pis /\ Truthy(item, "in_stock") THEN 3 ELSE 0
    IN  RatPlus(score, frequent + stock)

\* the boosted score of find_best_match's scoring loop
BoostedScore(pf, pis, item, score) ==
    LET frequent == IF pf /\ Truthy(item, "frequently_bought") THEN 5 ELSE 0
        stock    == IF pis /\ Truthy(item, "in_stock") THEN 3
                    ELSE IF ~Truthy(item, "in_stock") THEN -10
                    ELSE 0
    IN  RatPlus(score, frequent + stock)

\* the scored_items list of find_best_match, before it is sorted
RECURSIVE ScoredItems(_, _, _, _, _, _)
\* a scoring loop that stops at the first candidate without a name
ScoredItems_StopsAtNameless(pf, pis, q, l, i, acc) ==
    IF i > Len(l) THEN acc
    ELSE IF ~HasName(l[i]) THEN acc
    ELSE LET score == TokenSortRatio(Lower(q), Lower(l[i].name))
         IN  ScoredItems(pf, pis, q, l, i + 1,
                         Append(acc, [item          |-> l[i],
                                      score         |-> score,
                                      boosted_score |-> BoostedScore(pf, pis, l[i], score)]))

ScoredItems(pf, pis, q, l, i, acc) ==
    IF i > Len(l) THEN acc
    ELSE IF ~HasName(l[i]) THEN ScoredItems(pf, pis, q, l, i + 1, acc)
    ELSE LET score == TokenSortRatio(Lower(q), Lower(l[i].name))
         IN  ScoredItems(pf, pis, q, l, i + 1,
                         Append(acc, [item          |-> l[i],
                                      score         |-> score,
                                      boosted_score |-> BoostedScore(pf, pis, l[i], score)]))

\* the scored_items list of find_best_match, sorted by boosted score
scored_items(pf, pis, q, l) == SortDesc(ScoredItems(pf, pis, q, l, 1, <<>>), "boosted_score")

\* best_match taking the first candidate, in ranking order, that reaches
\* min_score
best_match_FirstQualifying(ms, scored) ==
    LET reaching == SelectSeq(scored, LAMBDA x : RatGeq(x.score, RatOfInt(ms)))
    IN  IF reaching # <<>>
        THEN MatchResult(reaching[1].item, reaching[1].score,
                         Get(reaching[1].item, "frequently_bought", FALSE),
                         GetOpt(reaching[1].item, "my_items_page"))
        ELSE NoMatch

\* best_match with the threshold applied to the boosted score
best_match_BoostedThreshold(ms, scored) ==
    IF scored # <<>> /\ RatGeq(scored[1].boosted_score, RatOfInt(ms))
    THEN MatchResult(scored[1].item, scored[1].score,
                     Get(scored[1].item, "frequently_bought", FALSE),
                     GetOpt(scored[1].item, "my_items_page"))
    ELSE NoMatch

\* best_match reporting the boosted score
best_match_ReportsBoosted(ms, scored) ==
    IF scored # <<>> /\ RatGeq(scored[1].score, RatOfInt(ms))
    THEN MatchResult(scored[1].item, scored[1].boosted_score,
                     Get(scored[1].item, "frequently_bought", FALSE),
                     GetOpt(scored[1].item, "my_items_page"))
    ELSE NoMatch

\* the end of find_best_match: the first of the sorted scored_items if its
\* score reaches min_score, None otherwise
best_match(ms, scored) ==
    IF scored # <<>> /\ RatGeq(scored[1].score, RatOfInt(ms))
    THEN MatchResult(scored[1].item, scored[1].score,
                     Get(scored[1].item, "frequently_bought", FALSE),
                     GetOpt(scored[1].item, "my_items_page"))
    ELSE NoMatch

\* find_best_match raising on an empty list instead of returning None
find_best_match_RaisesOnEmpty(ms, pf, pis, q, l, my) ==
    IF l = <<>> THEN [kind |-> "ValueError"]
    ELSE LET item_map == NameMap(l)
             my_match == IF my # None /\ my[1] # <<>>
                         THEN FindInMyItems(ms, q, DictKeys(my[1], 1, <<>>), item_map)
                         ELSE NoMatch
         IN  IF my_match # NoMatch THEN my_match
             ELSE best_match(ms, scored_items(pf, pis, q, l))

\* ItemMatcher.find_best_match(query, items, my_items) on a matcher whose
\* fields are ms, pf, pis
find_best_match(ms, pf, pis, q, l, my) ==
    IF l = <<>> THEN NoMatch
    ELSE LET item_map == NameMap(l)
             my_match == IF my # None /\ my[1] # <<>>
                         THEN FindInMyItems(ms, q, DictKeys(my[1], 1, <<>>), item_map)
                         ELSE NoMatch
         IN  IF my_match # NoMatch THEN my_match
             ELSE best_match(ms, scored_items(pf, pis, q, l))

RECURSIVE TopResults(_, _, _, _, _)

\* results that carry the boosted score of find_best_match's scoring loop
TopResults_Boosted(ms, q, l, i, acc) ==
    IF i > Len(l) THEN [kind |-> "list", list |-> acc]
    ELSE IF ~HasName(l[i]) THEN TopResults(ms, q, l, i + 1, acc)
    ELSE LET score == TokenSortRatio(Lower(q), Lower(l[i].name))
         IN  IF ~RatGeq(score, RatOfInt(ms)) THEN TopResults(ms, q, l, i + 1, acc)
             ELSE IF "id" \notin DOMAIN l[i] THEN KeyError
             ELSE TopResults(ms, q, l, i + 1,
                             Append(acc, MatchResult(l[i],
                                                     BoostedScore(prefer_frequent,
                                                                  prefer_in_stock,
                                                                  l[i], score),
                                                     Get(l[i], "frequently_bought", FALSE),
                                                     None)))

\* results that must score above min_score, not at it
TopResults_StrictThreshold(ms, q, l, i, acc) ==
    IF i > Len(l) THEN [kind |-> "list", list |-> acc]
    ELSE IF ~HasName(l[i]) THEN TopResults(ms, q, l, i + 1, acc)
    ELSE LET score == TokenSortRatio(Lower(q), Lower(l[i].name))
         IN  IF ~RatGt(score, RatOfInt(ms)) THEN TopResults(ms, q, l, i + 1, acc)
             ELSE IF "id" \notin DOMAIN l[i] THEN KeyError
             ELSE TopResults(ms, q, l, i + 1,
                             Append(acc, MatchResult(l[i], score,
                                                     Get(l[i], "frequently_bought", FALSE),
                                                     None)))

\* the results list of get_top_matches, before it is sorted; KeyError as soon
\* as a qualifying candidate has no id
TopResults(ms, q, l, i, acc) ==
    IF i > Len(l) THEN [kind |-> "list", list |-> acc]
    ELSE IF ~HasName(l[i]) THEN TopResults(ms, q, l, i + 1, acc)
    ELSE LET score == TokenSortRatio(Lower(q), Lower(l[i].name))
         IN  IF ~RatGeq(score, RatOfInt(ms)) THEN TopResults(ms, q, l, i + 1, acc)
             ELSE IF "id" \notin DOMAIN l[i] THEN KeyError
             ELSE TopResults(ms, q, l, i + 1,
                             Append(acc, MatchResult(l[i], score,
                                                     Get(l[i], "frequently_bought", FALSE),
                                                     None)))

\* ItemMatcher.get_top_matches(query, items, limit)
get_top_matches(ms, q, l, n) ==
    IF l = <<>> THEN [kind |-> "list", list |-> <<>>]
    ELSE LET results == TopResults(ms, q, l, 1, <<>>)
         IN  IF results = KeyError THEN KeyError
             ELSE [kind |-> "list", list |-> Slice(SortDesc(results.list, "score"), n)]

----------------------------------------------------------------------------
(* The callers' data *)

\* more candidates than this are not put in one catalog list
MaxItems == 2

\* more candidates than this are not put in one history pool
MaxHistory == 2

\* the largest limit passed to get_top_matches
MaxLimit == 2

\* the threads that call the matcher at the same time
MaxThreads == 2

\* the longest Alexa shopping list scraped
MaxScraped == 2

\* the most product cards on a page of search results
MaxCards == 3

\* the largest "bought N+ times" count and the largest price on a card
MaxBought == 2

MaxPrice == 2

\* the most items on the Amazon list when it is cleared
MaxListItems == 3

\* the default of ItemMatcher's min_score
DefaultMinScore == 70

\* the min_score run_once gives the matcher of its My Items pass
FallbackMinScore == 60

\* the largest value a min_score is documented to take
TopMinScore == 100

\* the thresholds a matcher is constructed with
MinScores == {FallbackMinScore, DefaultMinScore, TopMinScore}

ItemIds == <<"P1", "P2", "P3", "P4">>

HistoryIds == <<"H1", "H2", "H3", "H4">>

\* the dict the scraper builds for the i-th product of a page
\* (_extract_product_data), with the page number search_my_items adds
Product(id, i, name, in_stock, frequently_bought, paged) ==
    LET product == [id                |-> id,
                    name              |-> name,
                    price             |-> i,
                    in_stock          |-> in_stock,
                    image             |-> "img-" \o id,
                    product_url       |-> "/ip/" \o id,
                    frequently_bought |-> frequently_bought]
    IN  IF paged THEN product @@ [my_items_page |-> i] ELSE product

\* name, in_stock and frequently_bought of a product
ProductChoices == Names \X BOOLEAN \X BOOLEAN

\* the same for a catalog that is matched together with a history pool
CorroboratedChoices == {<<n, b, ~b>> : n \in Names, b \in BOOLEAN}

\* the catalog lists of at most MaxItems products
CatalogLists(paged, choices) ==
    UNION { { [i \in 1..k |-> Product(ItemIds[i], i, c[i][1], c[i][2], c[i][3], paged)] :
              c \in [1..k -> choices] } : k \in 0..MaxItems }

\* the history pools of at most MaxHistory products
HistoryLists ==
    UNION { { [i \in 1..k |-> Product(HistoryIds[i], i, c[i], TRUE, TRUE, TRUE)] :
              c \in [1..k -> HistoryNames] } : k \in 0..MaxHistory }

\* the keys of a product as the scraper builds it
AllKeys == {"id", "name", "price", "in_stock", "image", "product_url",
            "frequently_bought", "my_items_page"}

\* the dict c with the given keys only
Restrict(c, keys) == [k \in (DOMAIN c) \cap keys |-> c[k]]

\* the keys a caller's record may have: all of them, all but one, or the id
\* and the name only
Shapes == {AllKeys, AllKeys \ {"id"}, AllKeys \ {"name"}, AllKeys \ {"in_stock"},
           {"id", "name"}}

PartialNames == {Str_, Str_A_B, Str_a_bb}

\* name, in_stock, frequently_bought and keys of a caller's record
PartialChoices == {<<n, b, ~b, keys>> : n \in PartialNames, b \in BOOLEAN, keys \in Shapes}

\* the catalog lists of at most MaxItems records, fields missing
PartialLists ==
    UNION { { [i \in 1..k |-> Restrict(Product(ItemIds[i], i, c[i][1], c[i][2], c[i][3], TRUE),
                                       c[i][4])] :
              c \in [1..k -> PartialChoices] } : k \in 0..MaxItems }

\* the history pools of one record, fields missing
PartialPools ==
    { <<Restrict(Product(HistoryIds[1], 1, Str_A_B, TRUE, TRUE, TRUE), keys)>> :
      keys \in {AllKeys, AllKeys \ {"name"}, {"name"}} }

\* the strings of the milk scenario
Str_2pct_milk   == <<50, 37, 32, 109, 105, 108, 107>>                \* "2% milk"
Str_Great_Value == <<71, 114, 101, 97, 116, 32, 86, 97, 108, 117, 101, 32, 50, 37, 32,
                     77, 105, 108, 107, 44, 32, 49, 32, 71, 97, 108>> \* "Great Value 2% Milk, 1 Gal"
Str_Almond_Milk == <<65, 108, 109, 111, 110, 100, 32, 77, 105, 108, 107>> \* "Almond Milk"

\* the flags a record of the scenario may carry besides its id and name
ScenarioFlags ==
    { Restrict([in_stock |-> a, frequently_bought |-> b], keys) :
      a \in BOOLEAN, b \in BOOLEAN, keys \in SUBSET {"in_stock", "frequently_bought"} }

\* the catalog lists of the scenario: the two named products, in this order
ScenarioLists ==
    { << [id |-> "A", name |-> Str_Great_Value] @@ fa,
         [id |-> "B", name |-> Str_Almond_Milk] @@ fb >> :
      fa \in ScenarioFlags, fb \in ScenarioFlags }

Threads == 1..MaxThreads

\* the frame of a thread that is in no call
IdleFrame == [pc |-> "idle", method |-> "", query |-> Str_, limit |-> 0,
              scored |-> <<>>, result |-> NoMatch]

\* name, in_stock and frequently_bought of the products the threads share
SharedChoices == {<<Str_A_B, FALSE, TRUE>>, <<Str_a_bb, TRUE, FALSE>>}

Limits == 0..MaxLimit

----------------------------------------------------------------------------
(* The state machine: a matcher is constructed, then called any number of  *)
(* times on the caller's data                                              *)

\* ItemMatcher.__init__, and the data the caller holds
Init ==
    /\ min_score \in MinScores
    /\ prefer_frequent \in BOOLEAN
    /\ prefer_in_stock \in BOOLEAN
    /\ query \in Queries
    /\ my_items \in {None} \cup {Some(h) : h \in HistoryLists}
    /\ \E paged \in BOOLEAN :
          items \in CatalogLists(paged, IF my_items = None THEN ProductChoices
                                        ELSE CorroboratedChoices)
    /\ call = [method |-> "__init__"]
    /\ result = NoMatch
    /\ threads = [t \in Threads |-> IdleFrame]
    /\ run = None
    /\ clearer = None
    /\ search = None

\* the list l without its first candidate of the given id
RECURSIVE WithoutId(_, _)
WithoutId(l, id) ==
    IF l = <<>> THEN <<>>
    ELSE IF l[1].id = id THEN Tail(l)
    ELSE <<l[1]>> \o WithoutId(Tail(l), id)

\* a find_best_match that takes the candidate it returns out of the caller's list
FindBestMatch_ConsumesMatch ==
    LET r == find_best_match(min_score, prefer_frequent, prefer_in_stock,
                             query, items, my_items)
    IN  /\ call' = [method |-> "find_best_match"]
        /\ result' = r
        /\ items' = IF r.kind = "MatchResult" THEN WithoutId(items, r.item_id) ELSE items
        /\ UNCHANGED <<min_score, prefer_frequent, prefer_in_stock, query, my_items, threads, run, clearer, search>>

\* a find_best_match that sorts the caller's list instead of its own
FindBestMatch_SortsInPlace ==
    /\ call' = [method |-> "find_best_match"]
    /\ result' = find_best_match(min_score, prefer_frequent, prefer_in_stock,
                                 query, items, my_items)
    /\ items' = IF \A i \in DOMAIN items : HasName(items[i])
                THEN LET sorted == scored_items(prefer_frequent, prefer_in_stock,
                                                query, items)
                     IN  [i \in DOMAIN sorted |-> sorted[i].item]
                ELSE items
    /\ UNCHANGED <<min_score, prefer_frequent, prefer_in_stock, query, my_items, threads, run, clearer, search>>

\* a call of find_best_match(query, items, my_items)
FindBestMatch ==
    /\ call' = [method |-> "find_best_match"]
    /\ result' = find_best_match(min_score, prefer_frequent, prefer_in_stock,
                                 query, items, my_items)
    /\ UNCHANGED <<min_score, prefer_frequent, prefer_in_stock, query, items, my_items,
                   threads, run, clearer, search>>

\* a call of get_top_matches(query, items, n)
GetTopMatches ==
    \E n \in Limits :
        /\ call' = [method |-> "get_top_matches", limit |-> n]
        /\ result' = get_top_matches(min_score, query, items, n)
        /\ UNCHANGED <<min_score, prefer_frequent, prefer_in_stock, query, items, my_items,
                       threads, run, clearer, search>>

Next == FindBestMatch \/ GetTopMatches

Spec == Init /\ [][Next]_vars

----------------------------------------------------------------------------
(* The vocabulary of the specification (spec.md, 4.1), for the properties  *)
(* below.  None of it is used by the model of the code above.              *)

\* base_score of a candidate
BaseScore(q, c) == TokenSortRatio(Lower(q), Lower(c.name))

\* adjusted_score of a candidate
AdjustedScore(pf, pis, q, c) ==
    RatPlus(BaseScore(q, c),
            (IF pf /\ c.frequently_bought THEN 5 ELSE 0)
            + (IF pis /\ c.in_stock THEN 3 ELSE IF ~c.in_stock THEN -10 ELSE 0))

\* the positions of the candidates of l that have a name
Named(l) == {i \in DOMAIN l : "name" \in DOMAIN l[i] /\ l[i].name # <<>>}

\* the candidate ranked first: of the highest adjusted score, and the
\* earliest of these
RankedFirst(pf, pis, q, l) ==
    CHOOSE i \in Named(l) : \A j \in Named(l) :
        \/ RatGt(AdjustedScore(pf, pis, q, l[i]), AdjustedScore(pf, pis, q, l[j]))
        \/ AdjustedScore(pf, pis, q, l[i]) = AdjustedScore(pf, pis, q, l[j]) /\ i <= j

\* the history pool, empty when none is supplied
HistoryPool == IF my_items = None THEN <<>> ELSE my_items[1]

\* the single best-scoring history candidate: of the highest base score, and
\* the earliest of these
BestHistory(q, pool) ==
    CHOOSE i \in Named(pool) : \A j \in Named(pool) :
        \/ RatGt(BaseScore(q, pool[i]), BaseScore(q, pool[j]))
        \/ BaseScore(q, pool[i]) = BaseScore(q, pool[j]) /\ i <= j

\* the best history candidate reaches min_score
HistoryHit ==
    /\ Named(HistoryPool) # {}
    /\ RatGeq(BaseScore(query, HistoryPool[BestHistory(query, HistoryPool)]),
              RatOfInt(min_score))

\* the name and the score of the best history candidate
HistoryName == HistoryPool[BestHistory(query, HistoryPool)].name

HistoryScore == BaseScore(query, HistoryPool[BestHistory(query, HistoryPool)])

\* the catalog candidates that carry the name of the best history candidate
SameName == {i \in Named(items) : items[i].name = HistoryName}

\* the same, up to letter case
SameNameUpToCase == {i \in Named(items) : Lower(items[i].name) = Lower(HistoryName)}

\* the history short-circuit applies
Corroborated == HistoryHit /\ SameName # {}

ReturnedBy(method) == call.method = method

IsMatch(r) == r.kind = "MatchResult"

\* a matcher constructed, and data of the caller in which fields are missing
InitPartial ==
    /\ min_score \in MinScores
    /\ prefer_frequent \in BOOLEAN
    /\ prefer_in_stock \in BOOLEAN
    /\ query \in Queries
    /\ my_items \in {None} \cup {Some(h) : h \in PartialPools}
    /\ items \in PartialLists
    /\ call = [method |-> "__init__"]
    /\ result = NoMatch
    /\ threads = [t \in Threads |-> IdleFrame]
    /\ run = None
    /\ clearer = None
    /\ search = None

SpecPartial == InitPartial /\ [][Next]_vars

\* a matcher with the default threshold, and the data of the milk scenario
InitScenario ==
    /\ min_score = DefaultMinScore
    /\ prefer_frequent \in BOOLEAN
    /\ prefer_in_stock \in BOOLEAN
    /\ query = Str_2pct_milk
    /\ my_items = None
    /\ items \in ScenarioLists
    /\ call = [method |-> "__init__"]
    /\ result = NoMatch
    /\ threads = [t \in Threads |-> IdleFrame]
    /\ run = None
    /\ clearer = None
    /\ search = None

SpecScenario == InitScenario /\ [][Next]_vars

----------------------------------------------------------------------------
(* Calls in progress at the same time: each thread runs its call in steps,  *)
(* its local variables in its own frame, and the threads interleave between *)
(* the steps                                                                *)

\* a matcher constructed, a catalog list and a history pool all threads pass
InitThreads ==
    /\ min_score \in MinScores
    /\ prefer_frequent \in BOOLEAN
    /\ prefer_in_stock \in BOOLEAN
    /\ query = Str_
    /\ my_items \in {None, Some(<<Product(HistoryIds[1], 1, Str_A_B, TRUE, TRUE, TRUE)>>)}
    /\ items \in CatalogLists(TRUE, SharedChoices)
    /\ call = [method |-> "__init__"]
    /\ result = NoMatch
    /\ threads = [t \in Threads |-> IdleFrame]
    /\ run = None
    /\ clearer = None
    /\ search = None

\* thread t returns r from its call
Return(t, r) == threads' = [threads EXCEPT ![t].pc = "returned", ![t].result = r]

\* thread t calls find_best_match(q, items, my_items) or
\* get_top_matches(q, items, n)
Enter(t) ==
    /\ threads[t].pc \in {"idle", "returned"}
    /\ \E q \in Queries :
          \/ threads' = [threads EXCEPT ![t] = [IdleFrame EXCEPT !.pc = "entered",
                                                                 !.method = "find_best_match",
                                                                 !.query = q]]
          \/ \E n \in Limits :
                threads' = [threads EXCEPT ![t] = [IdleFrame EXCEPT !.pc = "entered",
                                                                    !.method = "get_top_matches",
                                                                    !.query = q,
                                                                    !.limit = n]]
    /\ UNCHANGED <<min_score, prefer_frequent, prefer_in_stock, query, items, my_items,
                   call, result, run, clearer, search>>

\* find_best_match up to the history short-circuit
FbmHistory(t) ==
    /\ threads[t].pc = "entered"
    /\ threads[t].method = "find_best_match"
    /\ IF items = <<>> THEN Return(t, NoMatch)
       ELSE LET item_map == NameMap(items)
                my_match == IF my_items # None /\ my_items[1] # <<>>
                            THEN FindInMyItems(min_score, threads[t].query,
                                               DictKeys(my_items[1], 1, <<>>), item_map)
                            ELSE NoMatch
            IN  IF my_match # NoMatch THEN Return(t, my_match)
                ELSE threads' = [threads EXCEPT ![t].pc = "scoring"]
    /\ UNCHANGED <<min_score, prefer_frequent, prefer_in_stock, query, items, my_items,
                   call, result, run, clearer, search>>

\* a scoring loop that keeps scored_items on the matcher, for all its calls
FbmScore_OnSelf(t) ==
    /\ threads[t].pc = "scoring"
    /\ threads[t].method = "find_best_match"
    /\ LET scored == scored_items(prefer_frequent, prefer_in_stock, threads[t].query, items)
       IN  threads' = [u \in Threads |->
                          [threads[u] EXCEPT !.scored = scored,
                                             !.pc = IF u = t THEN "scored" ELSE @]]
    /\ UNCHANGED <<min_score, prefer_frequent, prefer_in_stock, query, items, my_items,
                   call, result, run, clearer, search>>

\* find_best_match: the scoring loop and the sort of scored_items
FbmScore(t) ==
    /\ threads[t].pc = "scoring"
    /\ threads[t].method = "find_best_match"
    /\ threads' = [threads EXCEPT
                      ![t].pc = "scored",
                      ![t].scored = scored_items(prefer_frequent, prefer_in_stock,
                                                 threads[t].query, items)]
    /\ UNCHANGED <<min_score, prefer_frequent, prefer_in_stock, query, items, my_items,
                   call, result, run, clearer, search>>

\* find_best_match: the threshold test and the return
FbmSelect(t) ==
    /\ threads[t].pc = "scored"
    /\ threads[t].method = "find_best_match"
    /\ Return(t, best_match(min_score, threads[t].scored))
    /\ UNCHANGED <<min_score, prefer_frequent, prefer_in_stock, query, items, my_items,
                   call, result, run, clearer, search>>

\* get_top_matches: the loop that collects the results
GtmScore(t) ==
    /\ threads[t].pc = "entered"
    /\ threads[t].method = "get_top_matches"
    /\ IF items = <<>> THEN Return(t, [kind |-> "list", list |-> <<>>])
       ELSE LET results == TopResults(min_score, threads[t].query, items, 1, <<>>)
            IN  IF results = KeyError THEN Return(t, KeyError)
                ELSE threads' = [threads EXCEPT ![t].pc = "scored",
                                                ![t].scored = results.list]
    /\ UNCHANGED <<min_score, prefer_frequent, prefer_in_stock, query, items, my_items,
                   call, result, run, clearer, search>>

\* get_top_matches: the sort of the results and the return of the first limit
GtmReturn(t) ==
    /\ threads[t].pc = "scored"
    /\ threads[t].method = "get_top_matches"
    /\ Return(t, [kind |-> "list",
                  list |-> Slice(SortDesc(threads[t].scored, "score"), threads[t].limit)])
    /\ UNCHANGED <<min_score, prefer_frequent, prefer_in_stock, query, items, my_items,
                   call, result, run, clearer, search>>

NextThreads ==
    \E t \in Threads :
        \/ Enter(t)
        \/ FbmHistory(t)
        \/ FbmScore(t)
        \/ FbmSelect(t)
        \/ GtmScore(t)
        \/ GtmReturn(t)

SpecThreads == InitThreads /\ [][NextThreads]_vars

----------------------------------------------------------------------------
(* Properties *)

\* C1: on a non-empty catalog list find_best_match never returns a
\* MatchResult whose score is below min_score, on the history path or on the
\* catalog path.
C1_ScoreReachesMinScore ==
    (ReturnedBy("find_best_match") /\ items # <<>> /\ IsMatch(result))
        => RatGeq(result.score, RatOfInt(min_score))

\* C1 at its edge: a match is returned whose score is exactly min_score
C1_Witness ==
    /\ ReturnedBy("find_best_match")
    /\ IsMatch(result)
    /\ result.score = RatOfInt(min_score)

\* C2: when the best history candidate reaches min_score with score h and a
\* catalog candidate carries its name, find_best_match returns a MatchResult
\* built from a catalog candidate of that name (its id, price and url), with
\* score h + 10 and frequently_bought true, whatever the other catalog
\* candidates are.
C2_HistoryShortCircuit ==
    (ReturnedBy("find_best_match") /\ Corroborated)
        => /\ IsMatch(result)
           /\ result.score = RatPlus(HistoryScore, 10)
           /\ result.frequently_bought
           /\ \E i \in SameName :
                 /\ result.item_id = items[i].id
                 /\ result.item_name = items[i].name
                 /\ result.price = items[i].price
                 /\ result.product_url = items[i].product_url

\* C2 where it shows: the short-circuit returns a candidate that is not
\* flagged frequently_bought while another candidate is ranked first
C2_Witness ==
    /\ ReturnedBy("find_best_match")
    /\ Corroborated
    /\ IsMatch(result)
    /\ \E i \in SameName : result.item_id = items[i].id /\ ~items[i].frequently_bought
    /\ RankedFirst(prefer_frequent, prefer_in_stock, query, items) \notin SameName

\* C3: without the short-circuit, find_best_match returns a match iff the
\* candidate ranked first by adjusted score has a base score of at least
\* min_score; the match is a candidate of the highest adjusted score and its
\* score is that candidate's base score.
C3_CatalogRanking ==
    (ReturnedBy("find_best_match") /\ ~Corroborated)
        => IF Named(items) = {} THEN result = NoMatch
           ELSE LET top == RankedFirst(prefer_frequent, prefer_in_stock, query, items)
                    adj(i) == AdjustedScore(prefer_frequent, prefer_in_stock, query, items[i])
                IN  IF RatGeq(BaseScore(query, items[top]), RatOfInt(min_score))
                    THEN /\ IsMatch(result)
                         /\ \E i \in Named(items) :
                               /\ result.item_id = items[i].id
                               /\ adj(i) = adj(top)
                               /\ result.score = BaseScore(query, items[i])
                    ELSE result = NoMatch

\* C3 where the adjustment decides: the candidate ranked first is not the one
\* of the highest base score, and it is returned with its base score
C3_Witness ==
    /\ ReturnedBy("find_best_match")
    /\ ~Corroborated
    /\ IsMatch(result)
    /\ \E j \in Named(items) :
          /\ RatGt(BaseScore(query, items[j]), result.score)
          /\ RatGeq(BaseScore(query, items[j]), RatOfInt(min_score))

\* C4: of several catalog candidates with the same highest adjusted score
\* find_best_match selects the earliest in the list.
C4_StableRanking ==
    (ReturnedBy("find_best_match") /\ ~Corroborated /\ IsMatch(result))
        => /\ result.item_id =
                 items[RankedFirst(prefer_frequent, prefer_in_stock, query, items)].id
           /\ \A j \in Named(items) :
                 (AdjustedScore(prefer_frequent, prefer_in_stock, query, items[j])
                      = AdjustedScore(prefer_frequent, prefer_in_stock, query,
                            items[RankedFirst(prefer_frequent, prefer_in_stock, query, items)])
                  /\ items[j].id # result.item_id)
                     => \E i \in 1..(j - 1) : items[i].id = result.item_id

\* C4 where it shows: two candidates of one name tie for the highest adjusted
\* score and the first is returned
C4_Witness ==
    /\ ReturnedBy("find_best_match")
    /\ ~Corroborated
    /\ IsMatch(result)
    /\ Len(items) >= 2
    /\ items[1].name = items[2].name
    /\ AdjustedScore(prefer_frequent, prefer_in_stock, query, items[1])
           = AdjustedScore(prefer_frequent, prefer_in_stock, query, items[2])
    /\ result.item_id = items[1].id

\* the catalog lists that differ from l in frequently_bought and in_stock
\* flags only
FlagVariants(l) ==
    { [i \in DOMAIN l |-> [l[i] EXCEPT !.in_stock = f[i][1], !.frequently_bought = f[i][2]]] :
      f \in [DOMAIN l -> BOOLEAN \X BOOLEAN] }

\* C5: without a history pool, a catalog list that differs in flags only and
\* has the same winner gives the same score.
C5_NoBoostInScore ==
    (ReturnedBy("find_best_match") /\ my_items = None /\ IsMatch(result))
        => \A v \in FlagVariants(items) :
              LET r == find_best_match(min_score, prefer_frequent, prefer_in_stock,
                                       query, v, None)
              IN  (IsMatch(r) /\ r.item_id = result.item_id) => r.score = result.score

\* C5 where it shows: the same candidate wins with other flags and another
\* adjusted score
C5_Witness ==
    /\ ReturnedBy("find_best_match")
    /\ my_items = None
    /\ IsMatch(result)
    /\ \E v \in FlagVariants(items) : \E i \in Named(items) :
          /\ find_best_match(min_score, prefer_frequent, prefer_in_stock,
                             query, v, None).kind = "MatchResult"
          /\ find_best_match(min_score, prefer_frequent, prefer_in_stock,
                             query, v, None).item_id = result.item_id
          /\ items[i].id = result.item_id
          /\ AdjustedScore(prefer_frequent, prefer_in_stock, query, v[i])
                # AdjustedScore(prefer_frequent, prefer_in_stock, query, items[i])

C7_EmptyCatalog ==
    items = <<>>
        => /\ ReturnedBy("find_best_match") => result = NoMatch
           /\ ReturnedBy("get_top_matches") => result = [kind |-> "list", list |-> <<>>]

\* C7 with a history pool: the catalog is empty, the pool is not
C7_Witness ==
    /\ items = <<>>
    /\ Named(HistoryPool) # {}
    /\ ReturnedBy("find_best_match")
    /\ result = NoMatch

ScoreInRange(score) == RatGeq(score, RatOfInt(0)) /\ RatGeq(RatOfInt(100), score)

\* C8: every score returned by find_best_match or get_top_matches lies in
\* 0..100.
C8_ScoreInRange ==
    /\ (ReturnedBy("find_best_match") /\ IsMatch(result)) => ScoreInRange(result.score)
    /\ (ReturnedBy("get_top_matches") /\ result.kind = "list")
          => \A k \in DOMAIN result.list : ScoreInRange(result.list[k].score)

\* C9 as claimed: when the best history candidate reaches min_score and a
\* catalog candidate has its name up to letter case, the short-circuit
\* returns such a candidate.
C9_IgnoresCase ==
    (ReturnedBy("find_best_match") /\ HistoryHit /\ SameNameUpToCase # {})
        => /\ IsMatch(result)
           /\ result.score = RatPlus(HistoryScore, 10)
           /\ \E i \in SameNameUpToCase : result.item_id = items[i].id

\* C9, amended: the names are compared exactly.  With a catalog candidate of
\* the identical name the short-circuit returns a candidate of that name;
\* without one, a name that differs in letter case only does not make it fire,
\* and a match that is returned is a plain catalog match (its own base score
\* and its own frequently_bought flag).
C9_ExactName ==
    (ReturnedBy("find_best_match") /\ HistoryHit)
        => IF SameName # {}
           THEN /\ IsMatch(result)
                /\ result.item_name = HistoryName
                /\ result.score = RatPlus(HistoryScore, 10)
           ELSE IsMatch(result)
                    => \E i \in Named(items) :
                          /\ result.item_id = items[i].id
                          /\ result.score = BaseScore(query, items[i])
                          /\ result.frequently_bought = items[i].frequently_bought

\* C9 where it shows: the catalog has the history name in another letter case
\* only, and that candidate is returned as a plain catalog match
C9_Witness ==
    /\ ReturnedBy("find_best_match")
    /\ HistoryHit
    /\ SameName = {}
    /\ IsMatch(result)
    /\ \E i \in SameNameUpToCase : result.item_id = items[i].id

\* the candidates get_top_matches may return
Qualifying == {i \in Named(items) : RatGeq(BaseScore(query, items[i]), RatOfInt(min_score))}

\* candidate i comes before candidate j in the order of get_top_matches
Before(i, j) ==
    \/ RatGt(BaseScore(query, items[i]), BaseScore(query, items[j]))
    \/ BaseScore(query, items[i]) = BaseScore(query, items[j]) /\ i < j

\* the position in items of the k-th result (ids are unique in a list)
PositionOf(k) == CHOOSE i \in DOMAIN items : items[i].id = result.list[k].item_id

\* C10: get_top_matches returns the first limit entries of the qualifying
\* named candidates ordered by base score descending, equal scores in input
\* order: at most limit results, each of base score >= min_score.
C10_TopMatches ==
    (ReturnedBy("get_top_matches") /\ call.limit >= 0)
        => /\ result.kind = "list"
           /\ Len(result.list) <= call.limit
           /\ Len(result.list) = IF Cardinality(Qualifying) < call.limit
                                 THEN Cardinality(Qualifying) ELSE call.limit
           /\ \A k \in DOMAIN result.list :
                 /\ \E i \in Qualifying : items[i].id = result.list[k].item_id
                 /\ result.list[k].score = BaseScore(query, items[PositionOf(k)])
                 /\ RatGeq(result.list[k].score, RatOfInt(min_score))
           /\ \A k \in DOMAIN result.list : \A m \in DOMAIN result.list :
                 k < m => Before(PositionOf(k), PositionOf(m))
           /\ \A i \in Qualifying :
                 (\A k \in DOMAIN result.list : PositionOf(k) # i)
                     => \A k \in DOMAIN result.list : Before(PositionOf(k), i)

\* C10 where it shows: two candidates qualify with equal scores and the limit
\* of 1 keeps the first
C10_Witness ==
    /\ ReturnedBy("get_top_matches")
    /\ call.limit = 1
    /\ Cardinality(Qualifying) = 2
    /\ \E i \in Qualifying : \E j \in Qualifying :
          i < j /\ BaseScore(query, items[i]) = BaseScore(query, items[j])
    /\ Len(result.list) = 1
    /\ result.list[1].item_id = items[1].id

\* the source page of a candidate, None when it has none
PageOf(c) == IF "my_items_page" \in DOMAIN c THEN Some(c.my_items_page) ELSE None

\* the ids and scores of a list of results, in order
IdsAndScores(l) == [k \in DOMAIN l |-> <<l[k].item_id, l[k].score>>]

\* C11: get_top_matches applies no boosting: the candidates it returns, their
\* order and their scores are the same whatever the frequently_bought and
\* in_stock flags of the candidates are (prefer_frequent and prefer_in_stock
\* are not read at all).
C11_TopMatchesUnboosted ==
    (ReturnedBy("get_top_matches") /\ result.kind = "list")
        => \A v \in FlagVariants(items) :
              LET r == get_top_matches(min_score, query, v, call.limit)
              IN  r.kind = "list" /\ IdsAndScores(r.list) = IdsAndScores(result.list)

\* C11 where it shows: both preferences are on, and the first result is out
\* of stock while the second is in stock and frequently bought with a higher
\* adjusted score
C11_Witness ==
    /\ ReturnedBy("get_top_matches")
    /\ prefer_frequent /\ prefer_in_stock
    /\ result.kind = "list"
    /\ Len(result.list) = 2
    /\ ~result.list[1].in_stock
    /\ result.list[2].in_stock /\ result.list[2].frequently_bought
    /\ RatGt(AdjustedScore(TRUE, TRUE, query, items[PositionOf(2)]),
             AdjustedScore(TRUE, TRUE, query, items[PositionOf(1)]))

\* the lists that differ from l in in_stock flags only
StockVariants(l) ==
    { [i \in DOMAIN l |-> [l[i] EXCEPT !.in_stock = f[i]]] : f \in [DOMAIN l -> BOOLEAN] }

\* C15: with prefer_in_stock false and no history pool, changing the in_stock
\* flags of the candidates does not change which candidate find_best_match
\* selects.
C15_StockIgnoredWithoutPreference ==
    (ReturnedBy("find_best_match") /\ ~prefer_in_stock /\ my_items = None)
        => \A v \in StockVariants(items) :
              LET r == find_best_match(min_score, prefer_frequent, prefer_in_stock,
                                       query, v, None)
              IN  /\ r.kind = result.kind
                  /\ IsMatch(r) => r.item_id = result.item_id

\* C16: on the history path and on the catalog path, the my_items_page of the
\* MatchResult of find_best_match is the source page of the catalog candidate
\* whose id it carries, and None when that candidate has none.
C16_PagePreserved ==
    (ReturnedBy("find_best_match") /\ IsMatch(result))
        => \E i \in DOMAIN items :
              /\ items[i].id = result.item_id
              /\ result.my_items_page = PageOf(items[i])

\* C16 where it shows: the history short-circuit returns the second candidate
\* of a paged catalog, with its page
C16_Witness ==
    /\ ReturnedBy("find_best_match")
    /\ Corroborated
    /\ IsMatch(result)
    /\ Len(items) = 2
    /\ result.item_id = items[2].id
    /\ "my_items_page" \in DOMAIN items[2]
    /\ result.my_items_page = Some(items[2].my_items_page)

\* C17: every MatchResult of get_top_matches carries the source page of the
\* candidate it was built from.
C17_TopMatchesPage ==
    (ReturnedBy("get_top_matches") /\ result.kind = "list")
        => \A k \in DOMAIN result.list :
              result.list[k].my_items_page = PageOf(items[PositionOf(k)])

\* C18: no call changes the catalog list, the history pool, a candidate
\* record or the query, and min_score, prefer_frequent and prefer_in_stock
\* keep the values they were constructed with.
C18_Pure ==
    [][/\ items' = items
       /\ my_items' = my_items
       /\ query' = query
       /\ min_score' = min_score
       /\ prefer_frequent' = prefer_frequent
       /\ prefer_in_stock' = prefer_in_stock]_vars

\* C18 where it shows: find_best_match has ranked the second candidate of the
\* caller's list first and returned it
C18_Witness ==
    /\ ReturnedBy("find_best_match")
    /\ my_items = None
    /\ IsMatch(result)
    /\ Len(items) = 2
    /\ Named(items) = {1, 2}
    /\ result.item_id = items[2].id

\* the list l without its nameless candidates
RECURSIVE WithoutNameless(_)
WithoutNameless(l) ==
    IF l = <<>> THEN <<>>
    ELSE IF 1 \in Named(l) THEN <<l[1]>> \o WithoutNameless(Tail(l))
    ELSE WithoutNameless(Tail(l))

\* the history pool without its nameless candidates
NamedHistory == IF my_items = None THEN None ELSE Some(WithoutNameless(my_items[1]))

\* the candidate c has the given id
HasId(c, id) == "id" \in DOMAIN c /\ c.id = id

\* C12: a candidate whose name is missing or empty is never returned, the
\* result is what it is for the list without the nameless candidates, and a
\* list of nameless candidates only gives "no match" (the empty list for
\* get_top_matches), not an exception.
C12_NamelessExcluded ==
    /\ ReturnedBy("find_best_match")
          => /\ result = find_best_match(min_score, prefer_frequent, prefer_in_stock,
                                         query, WithoutNameless(items), NamedHistory)
             /\ IsMatch(result) => \E i \in Named(items) : HasId(items[i], result.item_id)
             /\ Named(items) = {} => result = NoMatch
    /\ ReturnedBy("get_top_matches")
          => /\ result = get_top_matches(min_score, query, WithoutNameless(items), call.limit)
             /\ result.kind = "list"
                   => \A k \in DOMAIN result.list :
                         \E i \in Named(items) : HasId(items[i], result.list[k].item_id)
             /\ Named(items) = {} => result = [kind |-> "list", list |-> <<>>]

\* C12 where it shows: the first candidate has no name field, neither has the
\* history record, and the second candidate is returned
C12_Witness ==
    /\ ReturnedBy("find_best_match")
    /\ Len(items) = 2
    /\ "name" \notin DOMAIN items[1]
    /\ my_items # None /\ "name" \notin DOMAIN my_items[1][1]
    /\ IsMatch(result)
    /\ HasId(items[2], result.item_id)

\* C13: no call ends with an exception, whichever fields of the candidate
\* records are missing.
C13_NeverRaises == result # KeyError

\* the list l with in_stock true where it is missing
WithStockDefault(l) ==
    [i \in DOMAIN l |-> IF "in_stock" \in DOMAIN l[i] THEN l[i]
                        ELSE l[i] @@ [in_stock |-> TRUE]]

\* C14: when every candidate has an id, find_best_match returns what it
\* returns for the list in which a missing in_stock is true: the same
\* candidate, with in_stock true if the field is missing.
C14_UnknownStockIsInStock ==
    (ReturnedBy("find_best_match") /\ \A i \in DOMAIN items : "id" \in DOMAIN items[i])
        => result = find_best_match(min_score, prefer_frequent, prefer_in_stock,
                                    query, WithStockDefault(items), my_items)

\* the milk scenario: the default threshold, the query "2% milk" and the two
\* products "Great Value 2% Milk, 1 Gal" (id A) and "Almond Milk" (id B)
MilkScenario ==
    /\ min_score = DefaultMinScore
    /\ query = Str_2pct_milk
    /\ my_items = None
    /\ Len(items) = 2
    /\ items[1].id = "A" /\ items[1].name = Str_Great_Value
    /\ items[2].id = "B" /\ items[2].name = Str_Almond_Milk

Alone(f) ==
    IF f.method = "find_best_match"
    THEN find_best_match(min_score, prefer_frequent, prefer_in_stock, f.query, items, my_items)
    ELSE get_top_matches(min_score, f.query, items, f.limit)

\* C19: however the steps of the threads' calls interleave, a call that has
\* returned has returned what it returns when it runs alone on its arguments.
C19_CallsIsolated ==
    \A t \in Threads : threads[t].pc = "returned" => threads[t].result = Alone(threads[t])

\* C19 where it shows: a find_best_match has returned a match on the catalog
\* path while another thread, with another query, is between the sort of its
\* own scored_items and its return
C19_Witness ==
    \E t \in Threads : \E u \in Threads :
        /\ t # u
        /\ threads[t].pc = "returned"
        /\ threads[t].method = "find_best_match"
        /\ IsMatch(threads[t].result)
        /\ ~Corroborated
        /\ threads[u].pc = "scored"
        /\ threads[u].method = "find_best_match"
        /\ threads[u].query # threads[t].query
        /\ threads[u].scored # <<>>
        /\ threads[u].scored[1].score # threads[t].result.score

\* the earliest catalog candidate that carries the name of the best history
\* candidate
EarliestSameName == CHOOSE i \in SameName : \A j \in SameName : i <= j

\* C21: when the history short-circuit applies and several catalog candidates
\* carry the matched name, the MatchResult is built from the earliest of them.
C21_EarliestDuplicate ==
    (ReturnedBy("find_best_match") /\ Corroborated)
        => IsMatch(result) /\ result.item_id = items[EarliestSameName].id

\* C22: when a history pool is supplied and its best candidate does not reach
\* min_score or has no namesake in the catalog, find_best_match returns what
\* it returns for the same query and catalog without a history pool.
C22_OnlyBestHistory ==
    (ReturnedBy("find_best_match") /\ my_items # None /\ ~Corroborated)
        => result = find_best_match(min_score, prefer_frequent, prefer_in_stock,
                                    query, items, None)

\* C22 where it shows: the best history candidate has no namesake in the
\* catalog, a second history candidate reaches min_score and has one, and the
\* result is the plain catalog result of that candidate
C22_Witness ==
    /\ ReturnedBy("find_best_match")
    /\ HistoryHit
    /\ SameName = {}
    /\ \E h \in Named(HistoryPool) :
          /\ RatGeq(BaseScore(query, HistoryPool[h]), RatOfInt(min_score))
          /\ \E i \in Named(items) :
                /\ items[i].name = HistoryPool[h].name
                /\ IsMatch(result)
                /\ result.item_id = items[i].id
                /\ result.score = BaseScore(query, items[i])
                /\ ~result.frequently_bought

\* C23 as claimed: without a history pool, find_best_match returns a match
\* whenever a named candidate has a base score of at least min_score.
C23_QualifyingGivesMatch ==
    (ReturnedBy("find_best_match") /\ my_items = None /\ Qualifying # {})
        => IsMatch(result)

\* C23: without a history pool, find_best_match reports "no match" exactly
\* when no named candidate reaches min_score or the candidate ranked first by
\* adjusted score is not one of those that do.
C23_TopMustQualify ==
    (ReturnedBy("find_best_match") /\ my_items = None)
        => (result = NoMatch
               <=> \/ Qualifying = {}
                   \/ RankedFirst(prefer_frequent, prefer_in_stock, query, items)
                         \notin Qualifying)

\* C23 where it shows: a candidate reaches min_score, a candidate that does
\* not is ranked first, and the result is "no match"
C23_Witness ==
    /\ ReturnedBy("find_best_match")
    /\ my_items = None
    /\ Qualifying # {}
    /\ RankedFirst(prefer_frequent, prefer_in_stock, query, items) \notin Qualifying
    /\ result = NoMatch

\* no preference applies: both preferences are off, every candidate is in
\* stock and there is no history pool
NoPreference ==
    /\ ~prefer_frequent
    /\ ~prefer_in_stock
    /\ my_items = None
    /\ \A i \in DOMAIN items : items[i].in_stock

\* r is the answer of find_best_match and g that of get_top_matches with
\* limit 1, and they agree
Agree(r, g) ==
    /\ g.kind = "list"
    /\ r = NoMatch <=> g.list = <<>>
    /\ IsMatch(r) => /\ g.list[1].item_id = r.item_id
                     /\ g.list[1].score = r.score

\* C24: when no preference applies, find_best_match returns "no match" iff
\* get_top_matches with limit 1 is empty, and otherwise the id and the score
\* of its first element.
C24_MethodsAgree ==
    /\ (ReturnedBy("find_best_match") /\ NoPreference)
          => Agree(result, get_top_matches(min_score, query, items, 1))
    /\ (ReturnedBy("get_top_matches") /\ call.limit = 1 /\ NoPreference)
          => Agree(find_best_match(min_score, prefer_frequent, prefer_in_stock,
                                   query, items, None),
                   result)

\* C24 where it shows: the first candidate is named and stays below
\* min_score, the second scores min_score exactly and is returned
C24_Witness ==
    /\ ReturnedBy("find_best_match")
    /\ NoPreference
    /\ Named(items) = {1, 2}
    /\ Qualifying = {2}
    /\ BaseScore(query, items[2]) = RatOfInt(min_score)
    /\ IsMatch(result)
    /\ result.item_id = items[2].id

----------------------------------------------------------------------------
(* run_once: the scraped list is saved to a file, the Amazon list is       *)
(* cleared, every item is searched in the catalog and added to the cart,   *)
(* the items whose add failed are matched against My Items in one batch,   *)
(* and the file is deleted or reduced to the items that were not added     *)

\* str(n) for a natural number n, as an f-string formats it
RECURSIVE FormatInt(_)
FormatInt(n) == IF n < 10 THEN <<48 + n>> ELSE FormatInt(n \div 10) \o <<48 + (n % 10)>>

\* name in line: the string name occurs in the string line
Contains(line, name) ==
    \E i \in 1..(Len(line) - Len(name) + 1) : SubSeq(line, i, i + Len(name) - 1) = name

\* "milk"
Str_milk == <<109, 105, 108, 107>>

\* "almond milk"
Str_almond_milk == <<97, 108, 109, 111, 110, 100, 32, 109, 105, 108, 107>>

\* "Eggs"
Str_Eggs == <<69, 103, 103, 115>>

\* "Amazon Shopping List - 2026-01-01 00:00:00"
Str_Header == <<65, 109, 97, 122, 111, 110, 32, 83, 104, 111, 112, 112,
                105, 110, 103, 32, 76, 105, 115, 116, 32, 45, 32, 50, 48,
                50, 54, 45, 48, 49, 45, 48, 49, 32, 48, 48, 58, 48, 48,
                58, 48, 48>>

\* "   Quantity: "
Str_Quantity == <<32, 32, 32, 81, 117, 97, 110, 116, 105, 116, 121, 58, 32>>

\* "   Raw: "
Str_Raw == <<32, 32, 32, 82, 97, 119, 58, 32>>

\* "Total items: "
Str_Total == <<84, 111, 116, 97, 108, 32, 105, 116, 101, 109, 115, 58, 32>>

\* "=" * 60
Str_Rule == [i \in 1..60 |-> 61]

\* the names on the Alexa shopping list
ItemNames == {Str_milk, Str_almond_milk, Str_Eggs}

\* the dict scrape_list builds for a list entry
ScrapedItem(name) == [name |-> name, quantity |-> 1, raw_text |-> name]

\* what scrape_list returns: the entries of the list, in order
ScrapedLists ==
    UNION { { [i \in 1..k |-> ScrapedItem(c[i])] : c \in [1..k -> ItemNames] } :
            k \in 0..MaxScraped }

\* the lines _save_items_to_file writes for the i-th item
ItemLines(i, item) ==
    << FormatInt(i) \o <<46, 32>> \o item.name,
       Str_Quantity \o FormatInt(item.quantity) >>
    \o (IF Get(item, "raw_text", Str_) # Str_ THEN <<Str_Raw \o item.raw_text>> ELSE <<>>)
    \o <<Str_>>

RECURSIVE AllItemLines(_, _)
AllItemLines(l, i) ==
    IF i > Len(l) THEN <<>> ELSE ItemLines(i, l[i]) \o AllItemLines(l, i + 1)

\* the lines of the file _save_items_to_file writes
SaveLines(l) ==
    <<Str_Header, Str_Rule, Str_>> \o AllItemLines(l, 1)
    \o <<Str_Rule, Str_Total \o FormatInt(Len(l))>>

\* the lines _remove_items_from_file writes back: those that contain none of
\* the lowered names of the items to remove
RemainingLines(lines, items_to_remove) ==
    LET names_to_remove == {Lower(items_to_remove[k].name) : k \in DOMAIN items_to_remove}
    IN  SelectSeq(lines, LAMBDA line :
                     ~ \E name \in names_to_remove : Contains(Lower(line), name))

\* the path _save_items_to_file returns when the file was written
SavedPath == "shopping_list.txt"

\* the top product of a catalog search whose add to the cart failed
TopProducts ==
    { Product(ItemIds[1], 1, n, TRUE, FALSE, FALSE) : n \in {Str_Great_Value, Str_Almond_Milk} }

\* how the catalog pass ends for one item: the search raises, finds nothing,
\* its top product is out of stock, its card is not on the page, the add
\* succeeds, or the add fails and the item waits for the My Items pass
CatalogOutcomes ==
    { [kind |-> k] : k \in {"raises", "no_products", "out_of_stock", "no_element", "added"} }
    \cup { [kind |-> "not_added", top_product |-> p] : p \in TopProducts }

\* what search_my_items(max_pages=10) may return
MyItemsLists ==
    { <<>>,
      << Product(HistoryIds[1], 1, Str_Almond_Milk, TRUE, TRUE, TRUE) >>,
      << Product(HistoryIds[1], 1, Str_Almond_Milk, TRUE, TRUE, TRUE),
         Product(HistoryIds[2], 2, Str_Great_Value, TRUE, TRUE, TRUE) >> }

\* how adding a matched My Items product ends
FallbackOutcomes == {"raises", "no_element", "added", "not_added"}

\* run_once after scrape_list returned l, with SKIP_WALMART set or not
RunFrame(l, skip) ==
    [pc                     |-> "scraped",
     items                  |-> l,
     skip_walmart           |-> skip,
     txt_file               |-> "",
     file                   |-> None,
     clear_list             |-> "not called",
     i                      |-> 1,
     successfully_added     |-> <<>>,
     failed_items           |-> <<>>,
     items_needing_fallback |-> <<>>,
     matches_to_add         |-> <<>>]

\* the items of the given positions, as the dicts of the scraped list
ItemsAt(r, positions) == [k \in DOMAIN positions |-> r.items[positions[k]]]

\* [f['item'] for f in items_needing_fallback]
FallbackItems(r) == [k \in DOMAIN r.items_needing_fallback |-> r.items_needing_fallback[k].item]

\* a run of the automation begins: the list was scraped, no matcher exists
InitRun ==
    /\ min_score = None
    /\ prefer_frequent = None
    /\ prefer_in_stock = None
    /\ query = Str_
    /\ items = <<>>
    /\ my_items = None
    /\ call = [method |-> "none"]
    /\ result = NoMatch
    /\ threads = [t \in Threads |-> IdleFrame]
    /\ \E l \in ScrapedLists, skip \in BOOLEAN : run = RunFrame(l, skip)
    /\ clearer = None
    /\ search = None

\* if not items: return True
NoItems ==
    /\ run # None /\ run.pc = "scraped" /\ run.items = <<>>
    /\ run' = [run EXCEPT !.pc = "returned no items"]
    /\ UNCHANGED <<min_score, prefer_frequent, prefer_in_stock, query, items, my_items,
                   call, result, threads, clearer, search>>

\* txt_file = self._save_items_to_file(items): the path of the written file,
\* or "" when writing raised
SaveItemsToFile ==
    /\ run # None /\ run.pc = "scraped" /\ run.items # <<>>
    /\ \/ run' = [run EXCEPT !.pc = "saved", !.txt_file = SavedPath,
                             !.file = Some(SaveLines(run.items))]
       \/ run' = [run EXCEPT !.pc = "saved", !.txt_file = ""]
    /\ UNCHANGED <<min_score, prefer_frequent, prefer_in_stock, query, items, my_items,
                   call, result, threads, clearer, search>>

\* amazon_clearer.clear_list(), whose result is only logged; an exception
\* ends the run with False
ClearAmazonList ==
    /\ run # None /\ run.pc = "saved"
    /\ \/ \E cleared \in {"True", "False"} :
             run' = [run EXCEPT !.pc = "cleared", !.clear_list = cleared]
       \/ run' = [run EXCEPT !.pc = "returned False", !.clear_list = "raised"]
    /\ UNCHANGED <<min_score, prefer_frequent, prefer_in_stock, query, items, my_items,
                   call, result, threads, clearer, search>>

\* if skip_walmart: the file is deleted and the run returns True
SkipWalmart ==
    /\ run # None /\ run.pc = "cleared" /\ run.skip_walmart
    /\ run' = [run EXCEPT !.pc = "returned skipped",
                          !.file = IF run.txt_file # "" THEN None ELSE @]
    /\ UNCHANGED <<min_score, prefer_frequent, prefer_in_stock, query, items, my_items,
                   call, result, threads, clearer, search>>

\* the Walmart page is opened and the three lists start empty; an exception
\* of the authentication ends the run with False
OpenWalmart ==
    /\ run # None /\ run.pc = "cleared" /\ ~run.skip_walmart
    /\ \/ run' = [run EXCEPT !.pc = "catalog", !.i = 1, !.successfully_added = <<>>,
                             !.failed_items = <<>>, !.items_needing_fallback = <<>>]
       \/ run' = [run EXCEPT !.pc = "returned False"]
    /\ UNCHANGED <<min_score, prefer_frequent, prefer_in_stock, query, items, my_items,
                   call, result, threads, clearer, search>>

\* the body of the catalog loop for the item at position r.i
ProcessItem(r, outcome) ==
    CASE outcome.kind \in {"raises", "no_products", "out_of_stock", "no_element"} ->
            [r EXCEPT !.failed_items = Append(@, r.i), !.i = @ + 1]
      [] outcome.kind = "added" ->
            [r EXCEPT !.successfully_added = Append(@, r.i), !.i = @ + 1]
      [] outcome.kind = "not_added" ->
            [r EXCEPT !.items_needing_fallback =
                          Append(@, [item |-> r.i, top_product |-> outcome.top_product]),
                      !.i = @ + 1]

\* where run_once goes when the catalog loop has no item left
AfterCatalog(r) ==
    IF r.i <= Len(r.items) THEN r
    ELSE [r EXCEPT !.pc = IF r.items_needing_fallback # <<>> THEN "fallback" ELSE "summary"]

\* one iteration of the catalog loop
CatalogItem ==
    /\ run # None /\ run.pc = "catalog"
    /\ \E outcome \in CatalogOutcomes : run' = AfterCatalog(ProcessItem(run, outcome))
    /\ UNCHANGED <<min_score, prefer_frequent, prefer_in_stock, query, items, my_items,
                   call, result, threads, clearer, search>>

\* failed_items.extend([f['item'] for f in items_needing_fallback])
FailAllFallback(r) == [r EXCEPT !.failed_items = @ \o FallbackItems(r), !.pc = "summary"]

\* my_items = walmart_search.search_my_items(max_pages=10) and, when it
\* found products, matcher = ItemMatcher(min_score=60, prefer_frequent=True)
SearchMyItems ==
    /\ run # None /\ run.pc = "fallback"
    /\ \/ /\ run' = FailAllFallback(run)
          /\ UNCHANGED <<min_score, prefer_frequent, prefer_in_stock, items>>
       \/ \E found \in MyItemsLists :
             IF found = <<>>
             THEN /\ run' = FailAllFallback(run)
                  /\ UNCHANGED <<min_score, prefer_frequent, prefer_in_stock, items>>
             ELSE /\ min_score' = FallbackMinScore
                  /\ prefer_frequent' = TRUE
                  /\ prefer_in_stock' = TRUE
                  /\ items' = found
                  /\ run' = [run EXCEPT !.pc = "matching", !.i = 1, !.matches_to_add = <<>>]
    /\ UNCHANGED <<query, my_items, call, result, threads, clearer, search>>

\* the body of the matching loop for the waiting item at position r.i, given
\* what find_best_match returned
MatchFallback(r, match) ==
    LET item == r.items_needing_fallback[r.i].item
    IN  IF IsMatch(match)
        THEN [r EXCEPT !.matches_to_add = Append(@, [item |-> item, match |-> match]),
                       !.i = @ + 1]
        ELSE [r EXCEPT !.failed_items = Append(@, item), !.i = @ + 1]

\* where run_once goes when the matching loop has no item left
AfterMatching(r) ==
    IF r.i <= Len(r.items_needing_fallback) THEN r
    ELSE IF r.matches_to_add # <<>> THEN [r EXCEPT !.pc = "adding", !.i = 1]
    ELSE FailAllFallback(r)

\* top_product['name'] of the waiting item the matching loop is at
FallbackQuery(r) == r.items_needing_fallback[r.i].top_product.name

\* the matching loop after find_best_match returned match; an exception
\* leaves the batch through the outer handler
ContinueMatching(r, match) ==
    IF match = KeyError THEN FailAllFallback(r) ELSE AfterMatching(MatchFallback(r, match))

\* one iteration of the matching loop:
\* matcher.find_best_match(query=top_product['name'], items=my_items)
FallbackMatch ==
    /\ run # None /\ run.pc = "matching"
    /\ query' = FallbackQuery(run)
    /\ call' = [method |-> "find_best_match"]
    /\ result' = find_best_match(min_score, prefer_frequent, prefer_in_stock,
                                 FallbackQuery(run), items, None)
    /\ run' = ContinueMatching(run, result')
    /\ UNCHANGED <<min_score, prefer_frequent, prefer_in_stock, items, my_items,
                   threads, clearer, search>>

\* one iteration of the adding loop: the matched product is added from its
\* My Items page
FallbackAdd ==
    /\ run # None /\ run.pc = "adding"
    /\ \E outcome \in FallbackOutcomes :
          LET item == run.matches_to_add[run.i].item
              r == IF outcome = "added"
                   THEN [run EXCEPT !.successfully_added = Append(@, item), !.i = @ + 1]
                   ELSE [run EXCEPT !.failed_items = Append(@, item), !.i = @ + 1]
          IN  run' = IF r.i <= Len(r.matches_to_add) THEN r ELSE [r EXCEPT !.pc = "summary"]
    /\ UNCHANGED <<min_score, prefer_frequent, prefer_in_stock, query, items, my_items,
                   call, result, threads, clearer, search>>

\* the file after the summary: deleted when every item was added, reduced by
\* _remove_items_from_file when some were, kept otherwise
HandledFile(r) ==
    IF r.txt_file # "" /\ r.file # None
    THEN IF Len(r.successfully_added) = Len(r.items) THEN None
         ELSE IF Len(r.successfully_added) > 0
              THEN Some(RemainingLines(r.file[1], ItemsAt(r, r.successfully_added)))
              ELSE r.file
    ELSE r.file

\* the file handling at the end of run_once; an exception of unlink or of
\* _remove_items_from_file is logged and leaves the file as it was
HandleFile ==
    /\ run # None /\ run.pc = "summary"
    /\ \/ run' = [run EXCEPT !.pc = "returned True", !.file = HandledFile(run)]
       \/ run' = [run EXCEPT !.pc = "returned True"]
    /\ UNCHANGED <<min_score, prefer_frequent, prefer_in_stock, query, items, my_items,
                   call, result, threads, clearer, search>>

NextRun ==
    \/ NoItems
    \/ SaveItemsToFile
    \/ ClearAmazonList
    \/ SkipWalmart
    \/ OpenWalmart
    \/ CatalogItem
    \/ SearchMyItems
    \/ FallbackMatch
    \/ FallbackAdd
    \/ HandleFile

SpecRun == InitRun /\ [][NextRun]_vars

----------------------------------------------------------------------------
(* Claims about run_once *)

\* the Walmart phase of the run is over: the summary is being written or
\* run_once returned after it
WalmartPhaseDone == run # None /\ run.pc \in {"summary", "returned True"}

\* how often the item at position k is recorded in the list l
Recorded(l, k) == Cardinality({n \in DOMAIN l : l[n] = k})

\* the run saved the scraped items: _save_items_to_file returned a path
SavedToFile == run.txt_file # ""

\* the lines of the file that name the item at position k
NameLine(k) == FormatInt(k) \o <<46, 32>> \o run.items[k].name

\* the file still lists the item at position k
StillListed(k) ==
    /\ run.file # None
    /\ \E n \in DOMAIN run.file[1] : run.file[1][n] = NameLine(k)

\* the item at position k was added to the cart
Added(k) == \E n \in DOMAIN run.successfully_added : run.successfully_added[n] = k

\* C25: when the Walmart phase is over every scraped item is recorded exactly
\* once across successfully_added and failed_items, so that the two lengths
\* add up to the number of scraped items
C25_EveryItemOnce ==
    WalmartPhaseDone =>
        /\ \A k \in DOMAIN run.items :
              Recorded(run.successfully_added, k) + Recorded(run.failed_items, k) = 1
        /\ Len(run.successfully_added) + Len(run.failed_items) = Len(run.items)

\* C26: the Amazon list is never cleared unless the scraped items were first
\* written to the file
C26_SavedBeforeCleared ==
    (run # None /\ run.clear_list # "not called") => SavedToFile

\* C27: with SKIP_WALMART off, an item that was not added is never removed
\* from the file: when the run returns, the saved file still lists every item
\* that was not added
C27_UnaddedItemsKept ==
    (run # None /\ run.pc = "returned True" /\ SavedToFile) =>
        \A k \in DOMAIN run.items : ~Added(k) => StillListed(k)

\* C29: the matcher of the My Items pass is constructed with a min_score
\* strictly higher than the default of ItemMatcher
C29_FallbackStricter ==
    (run # None /\ run.pc \in {"matching", "adding"}) => min_score > DefaultMinScore

----------------------------------------------------------------------------
(* search_products: the products of the first max_results cards of the     *)
(* page are extracted in page order and sorted before they are returned    *)

\* the dict _extract_product_data_from_link builds for a card
Card(id, bought_count, price) ==
    [id                |-> id,
     name              |-> Str_a_b,
     price             |-> price,
     in_stock          |-> TRUE,
     bought_count      |-> bought_count,
     frequently_bought |-> bought_count > 0]

\* the products of a page of results, in page order, each id once
CardLists ==
    UNION { { [i \in 1..k |-> Card(ItemIds[i], c[i][1], c[i][2])] :
              c \in [1..k -> (0..MaxBought) \X (0..MaxPrice)] } : k \in 0..MaxCards }

\* a sort key that orders equal counts by price, highest first
SortKey_PriceDescending(x) == <<Get(x, "bought_count", 0), Get(x, "price", 999999)>>

\* key=lambda x: (x.get('bought_count', 0), -x.get('price', 999999))
SortKey(x) == <<Get(x, "bought_count", 0), -Get(x, "price", 999999)>>

\* a > b for two keys, as Python compares tuples
KeyGreater(a, b) == a[1] > b[1] \/ (a[1] = b[1] /\ a[2] > b[2])

\* x put into the list l, which is sorted by key from the highest down, behind
\* the products whose key is not lower: the sort is stable
RECURSIVE InsertByKey(_, _)
InsertByKey(x, l) ==
    IF l = <<>> THEN <<x>>
    ELSE IF KeyGreater(SortKey(x), SortKey(l[1])) THEN <<x>> \o l
    ELSE <<l[1]>> \o InsertByKey(x, Tail(l))

\* products.sort(key=..., reverse=True)
RECURSIVE SortProducts(_)
SortProducts(l) ==
    IF l = <<>> THEN <<>>
    ELSE InsertByKey(l[Len(l)], SortProducts(SubSeq(l, 1, Len(l) - 1)))

\* the page of results is loaded
InitSearch ==
    /\ min_score = None
    /\ prefer_frequent = None
    /\ prefer_in_stock = None
    /\ query = Str_
    /\ items = <<>>
    /\ my_items = None
    /\ call = [method |-> "none"]
    /\ result = NoMatch
    /\ threads = [t \in Threads |-> IdleFrame]
    /\ run = None
    /\ clearer = None
    /\ \E cards \in CardLists : search = [pc |-> "loaded", cards |-> cards]

\* search_products(query, max_results) on a page that shows results
SearchProducts ==
    /\ search # None /\ search.pc = "loaded"
    /\ \E max_results \in 1..MaxCards :
          LET products == Slice(search.cards, max_results)
          IN  search' = [pc          |-> "returned",
                         cards       |-> search.cards,
                         max_results |-> max_results,
                         extracted   |-> products,
                         products    |-> SortProducts(products)]
    /\ UNCHANGED <<min_score, prefer_frequent, prefer_in_stock, query, items, my_items,
                   call, result, threads, run, clearer>>

\* search_products on a page on which no result selector appears in time:
\* it returns []
SearchTimesOut ==
    /\ search # None /\ search.pc = "loaded"
    /\ search' = [pc          |-> "returned",
                  cards       |-> search.cards,
                  max_results |-> MaxCards,
                  extracted   |-> <<>>,
                  products    |-> <<>>]
    /\ UNCHANGED <<min_score, prefer_frequent, prefer_in_stock, query, items, my_items,
                   call, result, threads, run, clearer>>

NextSearch == SearchProducts \/ SearchTimesOut

SpecSearch == InitSearch /\ [][NextSearch]_vars

\* the search returned
SearchReturned == search # None /\ search.pc = "returned"

\* the product p comes no later than q in the order of the claim: a higher
\* count first, and for equal counts a price that is not higher
InOrder(p, q) ==
    \/ p.bought_count > q.bought_count
    \/ p.bought_count = q.bought_count /\ p.price <= q.price

\* C28: search_products returns the products it scraped ordered by
\* bought_count descending, equal counts by price ascending, so that
\* products[0] has the highest bought_count of them and, among the products
\* with that count, the lowest price
C28_SortedByBoughtThenPrice ==
    SearchReturned =>
        LET products == search.products
        IN  /\ \A i, j \in DOMAIN products : i < j => InOrder(products[i], products[j])
            /\ {products[i] : i \in DOMAIN products}
                  = {search.extracted[i] : i \in DOMAIN search.extracted}
            /\ Len(products) = Len(search.extracted)
            /\ \A i \in DOMAIN products :
                  /\ products[1].bought_count >= products[i].bought_count
                  /\ products[i].bought_count = products[1].bought_count
                        => products[1].price <= products[i].price

\* three products were returned; on the page the one with the lowest count
\* came first and, of the two with the higher count, the dearer one came
\* before the cheaper one
C28_Witness ==
    /\ SearchReturned
    /\ Len(search.products) = 3
    /\ search.extracted[1].bought_count < search.extracted[2].bought_count
    /\ search.extracted[2].bought_count = search.extracted[3].bought_count
    /\ search.extracted[2].price > search.extracted[3].price
    /\ search.products[1] = search.extracted[3]

----------------------------------------------------------------------------
(* clear_list: the Delete buttons of the list page are counted, the first  *)
(* one is clicked once per iteration of the loop, a confirmation button is *)
(* looked for after each click, and the buttons are counted again          *)

\* clear_list is called on a list of n items; each item shows a Delete button
ClearFrame(n) ==
    [pc            |-> "called",
     list_items    |-> n,
     initial_count |-> 0,
     cleared_count |-> 0,
     clicks        |-> 0]

\* a loop test that lets the loop run once more
LoopContinues_OneMore(c) == c.cleared_count <= c.initial_count

\* while cleared_count < initial_count
LoopContinues(c) == c.cleared_count < c.initial_count

\* what _get_item_count may return: the number of Delete buttons, or 0 when
\* counting them raises
ItemCounts(c) == {c.list_items, 0}

\* the list page after a click on a Delete button: the item is gone, or it is
\* still there (the page asks for a confirmation, or has not reacted)
AfterClick(c) ==
    { [c EXCEPT !.clicks = @ + 1, !.list_items = @ - 1],
      [c EXCEPT !.clicks = @ + 1] }

\* the confirmation step: the first selector tried is again
\* "button:has-text('Delete')", so a Delete button that is visible is clicked;
\* the other selectors click no Delete button
AfterConfirmation(c) ==
    IF c.list_items > 0 THEN AfterClick(c) \cup {c} ELSE {c}

\* the end of an iteration: cleared_count += 1 and the safety check
EndIteration(c) ==
    LET counted == [c EXCEPT !.cleared_count = @ + 1]
    IN  IF counted.cleared_count >= counted.initial_count * 2
        THEN [counted EXCEPT !.pc = "verify"]
        ELSE counted

\* the list page is loaded
InitClear ==
    /\ min_score = None
    /\ prefer_frequent = None
    /\ prefer_in_stock = None
    /\ query = Str_
    /\ items = <<>>
    /\ my_items = None
    /\ call = [method |-> "none"]
    /\ result = NoMatch
    /\ threads = [t \in Threads |-> IdleFrame]
    /\ run = None
    /\ \E n \in 0..MaxListItems : clearer = ClearFrame(n)
    /\ search = None

\* page.goto and initial_count = self._get_item_count(): an exception of the
\* navigation is raised again, a count of 0 returns True
ClearStart ==
    /\ clearer # None /\ clearer.pc = "called"
    /\ \/ clearer' = [clearer EXCEPT !.pc = "raised"]
       \/ \E initial_count \in ItemCounts(clearer) :
             clearer' = IF initial_count = 0
                        THEN [clearer EXCEPT !.pc = "returned"] @@ [result |-> TRUE]
                        ELSE [clearer EXCEPT !.pc = "loop", !.initial_count = initial_count,
                                             !.cleared_count = 0]
    /\ UNCHANGED <<min_score, prefer_frequent, prefer_in_stock, query, items, my_items,
                   call, result, threads, run, search>>

\* one iteration of the loop: it breaks when no Delete button is found or a
\* call raises, and otherwise clicks the first Delete button, handles the
\* confirmation and counts the iteration
ClearIteration ==
    /\ clearer # None /\ clearer.pc = "loop" /\ LoopContinues(clearer)
    /\ \/ clearer' = [clearer EXCEPT !.pc = "verify"]
       \/ /\ clearer.list_items = 0
          /\ clearer' = [clearer EXCEPT !.pc = "verify"]
       \/ /\ clearer.list_items > 0
          /\ \E clicked \in AfterClick(clearer) :
                \E confirmed \in AfterConfirmation(clicked) :
                   clearer' = EndIteration(confirmed)
    /\ UNCHANGED <<min_score, prefer_frequent, prefer_in_stock, query, items, my_items,
                   call, result, threads, run, search>>

\* the loop test fails and the loop is left
ClearLoopEnds ==
    /\ clearer # None /\ clearer.pc = "loop" /\ ~LoopContinues(clearer)
    /\ clearer' = [clearer EXCEPT !.pc = "verify"]
    /\ UNCHANGED <<min_score, prefer_frequent, prefer_in_stock, query, items, my_items,
                   call, result, threads, run, search>>

\* final_count = self._get_item_count() and the return of final_count == 0
ClearVerify ==
    /\ clearer # None /\ clearer.pc = "verify"
    /\ \E final_count \in ItemCounts(clearer) :
          clearer' = [clearer EXCEPT !.pc = "returned"]
                     @@ [final_count |-> final_count, result |-> (final_count = 0)]
    /\ UNCHANGED <<min_score, prefer_frequent, prefer_in_stock, query, items, my_items,
                   call, result, threads, run, search>>

NextClear == ClearStart \/ ClearIteration \/ ClearLoopEnds \/ ClearVerify

\* clear_list runs on its own thread of control: a step that can be taken is
\* taken, since every call on the page returns or raises within its timeout
SpecClear == InitClear /\ [][NextClear]_vars /\ WF_vars(NextClear)

\* clear_list returned or raised
ClearEnded == clearer # None /\ clearer.pc \in {"returned", "raised"}

\* clear_list returned after its loop, having counted the buttons again
VerifiedReturn == clearer # None /\ clearer.pc = "returned" /\ "final_count" \in DOMAIN clearer

\* C30 as stated: clear_list makes at most initial_count clicks on Delete
\* buttons, one per iteration of its loop, and what it returns is True iff the
\* count read after the loop is 0
C30_OneClickPerItem ==
    /\ (clearer # None /\ clearer.pc \in {"loop", "verify", "returned"}) =>
          /\ clearer.clicks <= clearer.initial_count
          /\ clearer.clicks <= clearer.cleared_count
    /\ (clearer # None /\ clearer.pc = "returned") =>
          /\ "final_count" \in DOMAIN clearer
          /\ clearer.result = (clearer.final_count = 0)

\* the bounds clear_list keeps: the loop runs at most initial_count times,
\* each iteration clicks at most two Delete buttons, and after the loop True
\* is returned iff the count read there is 0; before the loop True is
\* returned for an initial count of 0
ClearBounds ==
    /\ (clearer # None /\ clearer.pc \in {"loop", "verify", "returned"}) =>
          /\ clearer.cleared_count <= clearer.initial_count
          /\ clearer.clicks <= 2 * clearer.cleared_count
          /\ clearer.clicks <= 2 * clearer.initial_count
    /\ VerifiedReturn => clearer.result = (clearer.final_count = 0)
    /\ (clearer # None /\ clearer.pc = "returned" /\ ~VerifiedReturn) =>
          clearer.initial_count = 0 /\ clearer.result

\* C30: clear_list always ends, after at most initial_count iterations of its
\* loop and at most two clicks on Delete buttons in each of them, and it
\* returns True iff the initial count is 0 or the count read after the loop is 0
C30_ClearListBounded == []ClearBounds /\ <>ClearEnded

\* a list of two items is cleared with four clicks on Delete buttons: in both
\* iterations the first click leaves the item and the confirmation removes it
C30_Witness ==
    /\ VerifiedReturn
    /\ clearer.initial_count = 2
    /\ clearer.cleared_count = 2
    /\ clearer.clicks = 4
    /\ clearer.final_count = 0
    /\ clearer.result

====
